---------------------------- MODULE Spec2Model ----------------------------
(***************************************************************************)
(* Model of the Korean stock data collectors:                              *)
(*   - KRStockCodeCollector      (src/src/data_collection/kr_stock_codes.py)*)
(*   - KoreanStockCollector      (src/src/data_collection/korean_stocks.py) *)
(*   - HistoricalMarketDataCollector                                        *)
(*                     (src/src/data_collection/historical_market_data.py) *)
(*                                                                         *)
(* Dates are day numbers.  An optional value (Python None / a value) is a   *)
(* set with at most one element: None == {} and a date d is {d}.            *)
(*                                                                         *)
(* All three collectors use sessionmaker(autocommit=False, autoflush=False):*)
(* a query sees the committed rows only, never the objects added to the    *)
(* session and not yet flushed; rows already loaded keep the attribute     *)
(* values assigned in memory (identity map) until commit or rollback.      *)
(***************************************************************************)
EXTENDS Integers, Sequences, FiniteSets, Bags, TLC

VARIABLES
    table,       \* kr_stock_codes: the committed rows
    hist,        \* pykrx: the price history the data source serves per ticker
    last,        \* outcome of the last collect_and_update_stock_symbols run
    call,        \* the last call of a function that changes no stored state
    stocks,      \* korean_stocks: the committed rows, a bag
    crun,        \* the call in progress on the KoreanStockCollector, or the last
    prices,      \* kr_stock_market_price: the committed rows, a bag
    msave,       \* the last call of save_market_data_to_db
    progress,    \* collection_progress.txt
    hrun,        \* HistoricalMarketDataCollector.run in progress, or the last
    io           \* the last call of a query, export or maintenance function

regVars == <<table, hist, last, call>>

stockVars == <<stocks, crun>>

histVars == <<prices, msave, progress, hrun>>

ioVars == <<io>>

vars ==
    <<table, hist, last, call, stocks, crun, prices, msave, progress, hrun, io>>

---------------------------------------------------------------------------
(* Bounds and program constants *)

\* datetime.now().date(): the day the collectors run
Today == 40

\* "1990-01-01", the first day asked of the data source
Epoch == 0

\* timedelta(days=30): the window of recent activity
RecentDays == 30

\* longest fetched company list (KOSPI + KOSDAQ tickers)
MaxCompanies == 3

\* The source commits every 100 records ((i + 1) % 100 == 0).  The interval
\* is scaled down so that a batch commit happens inside a bounded list.
CommitEvery == 2

None == {}

Symbols == {"A", "B"}

Markets == {"KOSPI", "KOSDAQ"}

Max(S) == CHOOSE x \in S : \A y \in S : y <= x

Min(S) == CHOOSE x \in S : \A y \in S : x <= y

\* the days a price history may hold: around the epoch, around the edge of
\* the 30-day window, and today
DateSet ==
    {Epoch - 1, Epoch, Epoch + 1,
     Today - RecentDays - 1, Today - RecentDays, Today - 1, Today}

---------------------------------------------------------------------------
(* pykrx *)

\* stock.get_market_ohlcv_by_date(fromdate, todate, ticker): the rows of the
\* ticker's price history h whose date lies in [fromdate, todate]
get_market_ohlcv_by_date(fromdate, todate, h) ==
    {d \in h : fromdate <= d /\ d <= todate}

\* get_ipo_date_from_pykrx taking df.index.max() for df.index.min()
get_ipo_date_latest(h, raises) ==
    IF raises THEN None
    ELSE LET df == get_market_ohlcv_by_date(Epoch, Today, h)
         IN  IF df # {} THEN {Max(df)} ELSE None

\* get_ipo_date_from_pykrx: h the ticker's price history, raises whether
\* the data source raises
get_ipo_date_from_pykrx(h, raises) ==
    IF raises THEN None
    ELSE LET df == get_market_ohlcv_by_date(Epoch, Today, h)
         IN  IF df # {} THEN {Min(df)} ELSE None

\* check_if_delisted taking df_all.index.min() for df_all.index.max()
check_if_delisted_earliest(h, raises1, raises2) ==
    IF raises1 THEN None
    ELSE LET df_recent == get_market_ohlcv_by_date(Today - RecentDays, Today, h)
         IN  IF df_recent # {} THEN None
             ELSE IF raises2 THEN None
             ELSE LET df_all == get_market_ohlcv_by_date(Epoch, Today, h)
                  IN  IF df_all # {} THEN {Min(df_all)} ELSE None

\* check_if_delisted: raises1 / raises2 tell whether the first (recent) and
\* the second (full history) request raise
check_if_delisted(h, raises1, raises2) ==
    IF raises1 THEN None
    ELSE LET df_recent == get_market_ohlcv_by_date(Today - RecentDays, Today, h)
         IN  IF df_recent # {} THEN None
             ELSE IF raises2 THEN None
             ELSE LET df_all == get_market_ohlcv_by_date(Epoch, Today, h)
                  IN  IF df_all # {} THEN {Max(df_all)} ELSE None

---------------------------------------------------------------------------
(* kr_stock_codes: the symbol registry *)

\* f"Unknown Company {ticker}"
UnknownCompany(ticker) ==
    IF ticker = "A" THEN "Unknown Company A" ELSE "Unknown Company B"

\* what stock.get_market_ticker_name may give: a name, a blank string, or
\* an exception
NameResults ==
    {[raises |-> FALSE, name |-> "Name1"], [raises |-> FALSE, name |-> " Name2 "],
     [raises |-> FALSE, name |-> " "], [raises |-> FALSE, name |-> ""],
     [raises |-> TRUE, name |-> ""]}

\* name.strip()
strip(name) ==
    IF name = " " THEN "" ELSE IF name = " Name2 " THEN "Name2" ELSE name

\* company_info without the fallback for a blank name
company_info_no_fallback(ticker, market, res) ==
    [stock_symbol |-> ticker,
     stock_market |-> market,
     company_name |->
        IF res.raises THEN UnknownCompany(ticker) ELSE strip(res.name)]

\* one entry of get_all_stock_codes_from_pykrx's result
company_info(ticker, market, res) ==
    [stock_symbol |-> ticker,
     stock_market |-> market,
     company_name |->
        IF res.raises THEN UnknownCompany(ticker)
        ELSE IF res.name = "" \/ strip(res.name) = ""
             THEN strip(UnknownCompany(ticker))
             ELSE strip(res.name)]

\* get_all_stock_codes_from_pykrx: kospi and kosdaq are the two ticker lists,
\* names[t] the name lookup of ticker t, raises whether fetching a ticker
\* list raises
get_all_stock_codes_from_pykrx(kospi, kosdaq, names, raises) ==
    IF raises THEN <<>>
    ELSE [k \in 1..Len(kospi) |-> company_info(kospi[k], "KOSPI", names[kospi[k]])]
         \o [k \in 1..Len(kosdaq) |-> company_info(kosdaq[k], "KOSDAQ", names[kosdaq[k]])]

\* cleanup_duplicates keeping the row of least updated_at
cleanup_keeps_oldest(tbl) ==
    IF Cardinality(tbl) > 1
    THEN LET syms == {r.stock_symbol : r \in tbl}
             oldest(s) == {r \in tbl : /\ r.stock_symbol = s
                                       /\ \A q \in tbl : q.stock_symbol = s
                                              => r.updated_at <= q.updated_at}
             keeps == {f \in [syms -> tbl] : \A s \in syms : f[s] \in oldest(s)}
         IN  {{f[s] : s \in syms} : f \in keeps}
    ELSE {tbl}

\* the rows the table may hold after cleanup_duplicates: with more than one
\* row stored, each stock_symbol keeps one row of greatest updated_at (the
\* order among equal dates is the database's choice)
cleanup_duplicates(tbl) ==
    IF Cardinality(tbl) > 1
    THEN LET syms == {r.stock_symbol : r \in tbl}
             newest(s) == {r \in tbl : /\ r.stock_symbol = s
                                       /\ \A q \in tbl : q.stock_symbol = s
                                              => q.updated_at <= r.updated_at}
             keeps == {f \in [syms -> tbl] : \A s \in syms : f[s] \in newest(s)}
         IN  {{f[s] : s \in syms} : f \in keeps}
    ELSE {tbl}

\* stock_symbol declared without unique=True: no flush raises
unique_not_enforced(rows, pend) == FALSE

\* Column(String(10), nullable=False, unique=True): whether flushing the
\* pending rows pend on top of the stored rows raises IntegrityError
unique_violation(rows, pend) ==
    \/ \E k \in 1..Len(pend) : \E r \in rows : r.stock_symbol = pend[k].stock_symbol
    \/ \E j, k \in 1..Len(pend) : j # k /\ pend[j].stock_symbol = pend[k].stock_symbol

\* id = Column(Integer, primary_key=True, autoincrement=True)
next_id(rows, k) ==
    (IF rows = {} THEN 0 ELSE Max({r.id : r \in rows})) + k

\* the rows stored once the session's changes are flushed and committed
flushed(work, pend) ==
    work \cup {[pend[k] EXCEPT !.id = next_id(work, k)] : k \in 1..Len(pend)}

\* session.commit() inside the loop (no rollback follows a failure: the
\* session stays deactivated and every later use of it raises)
session_commit(st) ==
    IF ~st.active \/ unique_violation(st.work, st.pend)
    THEN [st EXCEPT !.active = FALSE, !.work = st.tbl, !.pend = <<>>,
                    !.raised = TRUE]
    ELSE [st EXCEPT !.tbl = flushed(st.work, st.pend),
                    !.work = flushed(st.work, st.pend),
                    !.pend = <<>>]

\* lines 549-578: reconcile the stored row r with the fetched company
update_existing(r, company, h) ==
    LET r1 == IF r.stock_market # company.stock_market
              THEN [r EXCEPT !.stock_market = company.stock_market] ELSE r
        r2 == IF r1.company_name # company.company_name
              THEN [r1 EXCEPT !.company_name = company.company_name] ELSE r1
        delisting_date == check_if_delisted(h.rows, h.raises, h.raises)
        r3 == IF delisting_date # r2.delisting_date
              THEN [r2 EXCEPT !.delisting_date = delisting_date,
                              !.is_active = FALSE]
              ELSE IF delisting_date = None /\ ~r2.is_active
              THEN [r2 EXCEPT !.delisting_date = None, !.is_active = TRUE]
              ELSE r2
    IN  IF r3 # r THEN [r3 EXCEPT !.updated_at = Today] ELSE r

\* lines 581-600: the row created for a company with no stored row
new_record(company, h) ==
    LET ipo_date == get_ipo_date_from_pykrx(h.rows, h.raises)
        delisting_date == check_if_delisted(h.rows, h.raises, h.raises)
    IN  [id |-> 0,
         stock_symbol |-> company.stock_symbol,
         stock_market |-> company.stock_market,
         company_name |-> company.company_name,
         ipo_date |-> ipo_date,
         delisting_date |-> delisting_date,
         is_active |-> (delisting_date = None),
         updated_at |-> Today]

\* the body of the loop for companies[i]: the set of session states it may
\* leave.  qfail is the index at which the lookup raises a database error
\* (0: none).
process_company(st, i, company, h, qfail) ==
    IF ~st.active \/ i = qfail
    THEN {[st EXCEPT !.error_count = @ + 1,
                     !.first_error = IF @ = 0 THEN i ELSE @]}
    ELSE LET found == {r \in st.work : r.stock_symbol = company.stock_symbol}
             bodies ==
                 IF found # {}
                 THEN {LET u == update_existing(r, company, h)
                       IN  [st EXCEPT !.work = (st.work \ {r}) \cup {u},
                                      !.updated_count =
                                          IF u # r THEN @ + 1 ELSE @,
                                      !.processed = @ \cup {i},
                                      !.symbols = @ \cup {company.stock_symbol}]
                       : r \in found}
                 ELSE {[st EXCEPT !.pend = Append(@, new_record(company, h)),
                                  !.created_count = @ + 1,
                                  !.processed = @ \cup {i},
                                  !.symbols = @ \cup {company.stock_symbol}]}
             batch(s1) ==
                 IF i % CommitEvery = 0
                 THEN LET s2 == session_commit(s1)
                      IN  IF s2.raised
                          THEN [s2 EXCEPT !.raised = FALSE,
                                          !.error_count = @ + 1,
                                          !.first_error = IF @ = 0 THEN i ELSE @]
                          ELSE s2
                 ELSE s1
         IN  {batch(s1) : s1 \in bodies}

RECURSIVE run_loop(_, _, _, _, _)
\* for i, company in enumerate(companies): the session states the loop may
\* end in, started from the states S at index i
run_loop(S, i, companies, h, qfail) ==
    IF i > Len(companies) THEN S
    ELSE run_loop(
            UNION {process_company(st, i, companies[i],
                                   h[companies[i].stock_symbol], qfail)
                   : st \in S},
            i + 1, companies, h, qfail)

\* the session as SessionLocal() opens it on the stored rows tbl
new_session(tbl) ==
    [tbl |-> tbl, work |-> tbl, pend |-> <<>>, active |-> TRUE, raised |-> FALSE,
     created_count |-> 0, updated_count |-> 0, error_count |-> 0,
     first_error |-> 0, processed |-> {}, symbols |-> {}]

\* lines 612-625: the final commit; a failure reaches the outer handler,
\* which rolls back and returns False
finish(st) ==
    LET s2 == session_commit(st)
    IN  [table |-> s2.tbl,
         ret |-> ~s2.raised,
         created_count |-> st.created_count,
         updated_count |-> st.updated_count,
         error_count |-> st.error_count,
         first_error |-> st.first_error,
         processed |-> st.processed,
         symbols |-> st.symbols]

\* a run without the check of lines 523-525 for an empty company list
run_without_empty_check(tbl, kospi, kosdaq, names, h, qfail) ==
    LET companies == get_all_stock_codes_from_pykrx(kospi, kosdaq, names, FALSE)
    IN  UNION {{finish(st) :
                  st \in run_loop({new_session(t0)}, 1, companies, h, qfail)}
               : t0 \in cleanup_duplicates(tbl)}

\* the outcomes of one run on the stored rows tbl: kospi and kosdaq are the
\* fetched ticker lists, names the name lookups, h the price histories
run_outcomes(tbl, kospi, kosdaq, names, h, qfail) ==
    LET companies == get_all_stock_codes_from_pykrx(kospi, kosdaq, names, FALSE)
    IN  UNION {
          IF companies = <<>>
          THEN {[table |-> t0, ret |-> FALSE, created_count |-> 0,
                 updated_count |-> 0, error_count |-> 0, first_error |-> 0,
                 processed |-> {}, symbols |-> {}]}
          ELSE {finish(st) :
                  st \in run_loop({new_session(t0)}, 1, companies, h, qfail)}
          : t0 \in cleanup_duplicates(tbl)}

---------------------------------------------------------------------------
(* korean_stocks: price rows per (symbol, date) *)

\* self.request_delay = 3.0
request_delay == 3

\* most rows of one data frame
MaxRows == 2

\* most companies of one collection
MaxStockCompanies == 2

\* stock codes pykrx may list: two well-formed ones, an empty one, a short one
StockCodes == {"005930", "000660", "", "12345"}

\* a company entry whose stock_code is None: its .strip() raises
NoCode == "<None>"

\* len(stock_code)
code_len(c) == IF c = "" THEN 0 ELSE IF c = "12345" THEN 5 ELSE 6

\* a check that lets every non-empty code through
skips_only_empty(stock_code) == stock_code = ""

\* line 389: not stock_code or len(stock_code) != 6
skips(stock_code) == stock_code = "" \/ code_len(stock_code) # 6

StockDates == {1, 2}

\* the value columns of a row (high, low, open_price, close, volume,
\* dividends, stock_splits, longname are assigned together)
Closes == {10, 20}

\* one row of a data frame, and of korean_stocks (which has no unique
\* constraint on symbol and date)
StockRows(codes) == [symbol : codes, date : StockDates, close : Closes]

\* data frames of one symbol, as get_stock_data_with_max_history builds them
FramesOf(code) == UNION {[1..n -> StockRows({code})] : n \in 0..MaxRows}

\* lines 436-468, one row of df: the session states that may follow st.
\* The lookup sees the committed rows only (autoflush=False); first() takes
\* any of the rows that match.
save_row(st, row) ==
    LET found == {r \in BagToSet(st.work) :
                     r.symbol = row.symbol /\ r.date = row.date}
    IN  IF found # {}
        THEN {[st EXCEPT !.work = (st.work (-) SetToBag({r}))
                                   (+) SetToBag({[r EXCEPT !.close = row.close]})]
              : r \in found}
        ELSE {[st EXCEPT !.pend = Append(@, row)]}

RECURSIVE save_rows(_, _, _)
\* for _, row in df.iterrows()
save_rows(S, df, k) ==
    IF k > Len(df) THEN S
    ELSE save_rows(UNION {save_row(st, df[k]) : st \in S}, df, k + 1)

RECURSIVE SeqToBag(_)
SeqToBag(q) ==
    IF q = <<>> THEN EmptyBag ELSE SetToBag({Head(q)}) (+) SeqToBag(Tail(q))

\* a save whose rollback keeps the rows already written for the frame
save_without_rollback(tbl, df, fails) ==
    {[stocks |-> st.work (+) SeqToBag(st.pend), ret |-> ~fails]
      : st \in save_rows({[work |-> tbl, pend |-> <<>>]}, df, 1)}

\* KoreanStockCollector.save_stock_data_to_db(df) on the stored rows tbl:
\* the possible results; fails tells whether the database raises, which
\* rolls the session back
save_stock_data_to_db(tbl, df, fails) ==
    IF fails THEN {[stocks |-> tbl, ret |-> FALSE]}
    ELSE {[stocks |-> st.work (+) SeqToBag(st.pend), ret |-> TRUE]
          : st \in save_rows({[work |-> tbl, pend |-> <<>>]}, df, 1)}

\* the pause taken only when the fetch returned rows
pause_only_with_data(df) ==
    IF df # <<>> THEN <<[op |-> "sleep", secs |-> request_delay]>> ELSE <<>>

\* time.sleep(self.request_delay) after a fetch that returned df
pause_after_fetch(df) == <<[op |-> "sleep", secs |-> request_delay]>>

\* lines 384-408, the loop body for one company: the states that may follow
\* st.  An entry whose fields cannot be read raises before the fetch and is
\* skipped by the handler of lines 406-408; the result of the save is not
\* looked at.
collect_company(st, company, fails) ==
    IF company.stock_code = NoCode THEN {st}
    ELSE
    LET stock_code == strip(company.stock_code)
    IN  IF skips(stock_code)
        THEN {st}
        ELSE LET stock_df == company.df
                 fetched == Append(st.events, [op |-> "fetch", secs |-> 0])
             IN  IF stock_df # <<>>
                 THEN {[stocks |-> sv.stocks,
                        all_stock_data |-> Append(st.all_stock_data, stock_df),
                        events |-> fetched \o pause_after_fetch(stock_df)]
                       : sv \in save_stock_data_to_db(st.stocks, stock_df, fails)}
                 ELSE {[st EXCEPT !.events = fetched \o pause_after_fetch(stock_df)]}

RECURSIVE concat(_)
\* pd.concat(all_stock_data, ignore_index=True)
concat(frames) ==
    IF frames = <<>> THEN <<>> ELSE Head(frames) \o concat(Tail(frames))

\* the frames get_stock_data_with_max_history may return for a code: the
\* daily history of yfinance, one row per date in ascending order (empty when
\* there is no data or the fetch raised)
HistoryFramesOf(code) ==
    {df \in FramesOf(code) :
        \A j, k \in 1..Len(df) : j < k => df[j].date < df[k].date}

\* what pykrx and yfinance may give for one company: yfinance has a history
\* for well-formed codes only
Companies ==
    UNION {[stock_code : {c},
            df : IF code_len(c) = 6 THEN HistoryFramesOf(c) ELSE {<<>>}]
           : c \in StockCodes}
    \cup {[stock_code |-> NoCode, df |-> <<>>]}

\* the (symbol, date) of every row of df
keys_of(df) == {[symbol |-> df[k].symbol, date |-> df[k].date] : k \in 1..Len(df)}

\* keys: the (symbol, date) pairs of the frame of the last save call;
\* company and fails: the company processed last and whether the database
\* failed on it; frame: the data frame returned
CrunInit ==
    [pc |-> "idle", fn |-> "none", ret |-> FALSE, events |-> <<>>, i |-> 0,
     all_stock_data |-> <<>>, keys |-> {},
     company |-> [stock_code |-> "", df |-> <<>>], fails |-> FALSE,
     frame |-> <<>>]

StockInit ==
    /\ stocks = EmptyBag
    /\ crun = CrunInit

\* a call of KoreanStockCollector.save_stock_data_to_db(df): df holds rows of
\* one symbol in any order, a (symbol, date) may repeat
SaveStockData ==
    /\ crun.pc = "idle"
    /\ \E c \in {"005930"} : \E df \in FramesOf(c) : \E fails \in BOOLEAN :
         \E o \in save_stock_data_to_db(stocks, df, fails) :
           /\ stocks' = o.stocks
           /\ crun' = [CrunInit EXCEPT !.fn = "save_stock_data_to_db",
                                       !.ret = o.ret, !.keys = keys_of(df)]
    /\ UNCHANGED <<regVars, histVars, ioVars>>

\* collect_all_stocks_data, lines 370-380: the company list is fetched; an
\* empty list ends the call at once
CollectStart ==
    /\ crun.pc = "idle"
    /\ \E empty \in BOOLEAN :
         crun' = [CrunInit EXCEPT !.fn = "collect_all_stocks_data",
                                  !.pc = IF empty THEN "idle" ELSE "loop"]
    /\ UNCHANGED <<stocks, regVars, histVars, ioVars>>

\* collect_all_stocks_data, lines 383-408: the next company of the list
CollectCompany ==
    /\ crun.pc = "loop"
    /\ crun.i < MaxStockCompanies
    /\ \E company \in Companies :
         \E fails \in (IF company.df = <<>> THEN {FALSE} ELSE BOOLEAN) :
         \E o \in collect_company([stocks |-> stocks,
                                   all_stock_data |-> crun.all_stock_data,
                                   events |-> crun.events], company, fails) :
           /\ stocks' = o.stocks
           /\ crun' = [crun EXCEPT !.events = o.events, !.i = @ + 1,
                                   !.all_stock_data = o.all_stock_data,
                                   !.company = company, !.fails = fails]
    /\ UNCHANGED <<regVars, histVars, ioVars>>

\* collect_all_stocks_data, lines 410-417: the list is exhausted and the
\* frames collected are combined and returned
CollectReturn ==
    /\ crun.pc = "loop"
    /\ crun.i >= 1
    /\ crun' = [crun EXCEPT !.pc = "idle",
                            !.ret = (crun.all_stock_data # <<>>),
                            !.frame = concat(crun.all_stock_data)]
    /\ UNCHANGED <<stocks, regVars, histVars, ioVars>>

StockNext == SaveStockData

CollectNext ==
    \/ CollectStart
    \/ CollectCompany
    \/ CollectReturn

---------------------------------------------------------------------------
(* The registry as a state machine: runs of the collector, and the data
   source changing between runs *)

\* what the data source may serve for a ticker: no rows, rows that end on
\* Epoch + 1 (one of them older than the epoch), rows up to today, an error
HistChoices ==
    {[raises |-> FALSE, rows |-> {}],
     [raises |-> FALSE, rows |-> {Epoch - 1, Epoch + 1}],
     [raises |-> FALSE, rows |-> {Epoch + 1, Today}],
     [raises |-> TRUE, rows |-> {Epoch + 1}]}

\* the ticker lists stock.get_market_ticker_list(market=...) may give: the
\* tickers of one market in some order, none of them twice (the lists of the
\* two markets may share tickers)
TickerLists ==
    {l \in UNION {[1..n -> Symbols] : n \in 0..Cardinality(Symbols)} :
        \A j, k \in 1..Len(l) : j # k => l[j] # l[k]}

\* what stock.get_market_ticker_name gives for each ticker
NamesServed ==
    [s \in Symbols |-> IF s = "A" THEN [raises |-> FALSE, name |-> "Name1"]
                                  ELSE [raises |-> TRUE, name |-> ""]]

LastInit ==
    [ran |-> FALSE, ret |-> FALSE, error_count |-> 0, later |-> TRUE,
     symbols |-> {}]

CallInit == [fn |-> "none", h |-> {}, raises1 |-> FALSE, raises2 |-> FALSE,
             result |-> None]

RegInit ==
    /\ table = {}
    /\ hist = [s \in Symbols |-> [raises |-> FALSE, rows |-> {}]]
    /\ last = LastInit
    /\ call = CallInit


\* the stored rows and the outcome a run leaves: o is one of run_outcomes
RunEnds(kospi, kosdaq, o) ==
    /\ table' = o.table
    /\ last' = [ran |-> TRUE, ret |-> o.ret,
                error_count |-> o.error_count,
                later |-> \A j \in 1..(Len(kospi) + Len(kosdaq)) :
                             j > o.first_error => j \in o.processed,
                symbols |-> o.symbols]

\* KRStockCodeCollector.collect_and_update_stock_symbols: one whole run.
\* last.later tells whether every company after the first error was still
\* reconciled.
collect_and_update_stock_symbols ==
    \E kospi \in TickerLists, kosdaq \in TickerLists :
      /\ Len(kospi) + Len(kosdaq) <= MaxCompanies
      /\ \E qfail \in 0..(Len(kospi) + Len(kosdaq)) :
           \E o \in run_outcomes(table, kospi, kosdaq, NamesServed, hist, qfail) :
             /\ RunEnds(kospi, kosdaq, o)
             /\ UNCHANGED <<hist, call, stockVars, histVars, ioVars>>

\* the price history stock.get_market_ohlcv_by_date serves for a ticker changes
HistoryChanges ==
    /\ \E s \in Symbols : \E h \in HistChoices :
         /\ h # hist[s]
         /\ hist' = [hist EXCEPT ![s] = h]
    /\ UNCHANGED <<table, last, call, stockVars, histVars, ioVars>>

RegNext ==
    \/ collect_and_update_stock_symbols
    \/ HistoryChanges

---------------------------------------------------------------------------
(* Calls of the date functions on arbitrary price histories *)

\* KRStockCodeCollector.check_if_delisted(stock_symbol) on a ticker whose
\* price history is h
CallCheckIfDelisted ==
    /\ \E h \in SUBSET DateSet : \E r1, r2 \in BOOLEAN :
         call' = [fn |-> "check_if_delisted", h |-> h, raises1 |-> r1,
                  raises2 |-> r2, result |-> check_if_delisted(h, r1, r2)]
    /\ UNCHANGED <<table, hist, last, stockVars, histVars, ioVars>>

\* KRStockCodeCollector.get_ipo_date_from_pykrx(stock_symbol)
CallGetIpoDate ==
    /\ \E h \in SUBSET DateSet : \E r1 \in BOOLEAN :
         call' = [fn |-> "get_ipo_date_from_pykrx", h |-> h, raises1 |-> r1,
                  raises2 |-> FALSE, result |-> get_ipo_date_from_pykrx(h, r1)]
    /\ UNCHANGED <<table, hist, last, stockVars, histVars, ioVars>>

DatesNext ==
    \/ CallCheckIfDelisted
    \/ CallGetIpoDate

---------------------------------------------------------------------------
(* kr_stock_market_price: the historical market data collector.
   A datetime is [day, tod]: tod is 0 at midnight. *)

\* most days between start_date and today
MaxRange == 1

\* the data frames stock.get_market_ohlcv may give: one row per ticker
MarketFrames == UNION {[T -> {10}] : T \in SUBSET Symbols}

\* datetime.strptime(start_date, "%Y-%m-%d")
StartDates == {[day |-> d, tod |-> 0] : d \in (Today - MaxRange)..Today}

\* the dates save_market_data_to_db is called with
SaveDates == {[day |-> d, tod |-> 0] : d \in {Today - 1, Today}}

\* datetime.now()
end_date == [day |-> Today, tod |-> 1]

\* current_date <= self.end_date
dt_le(a, b) == a.day < b.day \/ (a.day = b.day /\ a.tod <= b.tod)

RECURSIVE get_date_range(_, _)
\* get_date_range: the dates from current_date to end, a day apart
get_date_range(current_date, end) ==
    IF dt_le(current_date, end)
    THEN <<current_date>>
         \o get_date_range([current_date EXCEPT !.day = @ + 1], end)
    ELSE <<>>

\* date.strftime("%Y-%m-%d")
strftime_ymd(dt) == [kind |-> "date", day |-> dt.day]

\* the text written for stats["last_successful_date"] when it is None
NoneText == [kind |-> "None", day |-> 0]

\* load_progress: None without a file or when the text is no date
\* (strptime raises and the error is logged), else the parsed date
load_progress(file) ==
    IF ~file.exists THEN None
    ELSE IF file.text.kind # "date" THEN None
    ELSE {[day |-> file.text.day, tod |-> 0]}

\* resuming at the recorded date itself: index(last_successful) without + 1
resume_at_recorded(all_dates, last_successful) ==
    IF last_successful = None THEN all_dates
    ELSE LET at == {k \in 1..Len(all_dates) : {all_dates[k]} = last_successful}
         IN  IF at = {} THEN all_dates
             ELSE SubSeq(all_dates, Min(at), Len(all_dates))

\* run, lines 439-448: the dates left after the last successful one
resume_dates(all_dates, last_successful) ==
    IF last_successful = None THEN all_dates
    ELSE LET at == {k \in 1..Len(all_dates) : {all_dates[k]} = last_successful}
         IN  IF at = {} THEN all_dates
             ELSE SubSeq(all_dates, Min(at) + 1, Len(all_dates))

\* transform_data_for_db: one record per row of df
transform_data_for_db(df, date, market) ==
    {[date |-> date.day, market_name |-> market, stock_symbol |-> t,
      close |-> df[t]] : t \in DOMAIN df}

\* the delete of lines 227-233 left out
delete_nothing(tbl, date, market) == tbl

\* lines 227-233: the rows left once those of (date, market) are deleted
delete_existing(tbl, date, market) ==
    [r \in {x \in BagToSet(tbl) : ~(x.date = date.day /\ x.market_name = market)}
        |-> tbl[r]]

\* save_market_data_to_db(date, market, data) on the stored rows tbl; fails
\* tells whether the database raises, which rolls the session back
save_market_data_to_db(tbl, date, market, data, fails) ==
    LET existing_count ==
            BagCardinality(tbl) - BagCardinality(delete_existing(tbl, date, market))
    IN  IF fails
        THEN [prices |-> tbl, ret |-> FALSE, existing_count |-> existing_count]
        ELSE [prices |-> delete_existing(tbl, date, market)
                         (+) SetToBag(transform_data_for_db(data, date, market)),
              ret |-> TRUE, existing_count |-> existing_count]

\* what one stock.get_market_ohlcv request and the save after it may do
RequestOutcomes ==
    {[raises |-> TRUE, df |-> <<>>, fails |-> FALSE]}
    \cup [raises : {FALSE}, df : {<<>>, [t \in {"A"} |-> 10]}, fails : BOOLEAN]

\* collect_market_data_for_date, lines 268-298: one market of the date
collect_market(st, date, market, out) ==
    LET requested == Append(st.events, [op |-> "request", day |-> date.day])
        slept == Append(requested, [op |-> "sleep", day |-> 0])
    IN  IF out.raises
        THEN [st EXCEPT !.events = requested, !.results[market] = FALSE]
        ELSE IF out.df # <<>>
        THEN LET sv == save_market_data_to_db(st.prices, date, market, out.df,
                                              out.fails)
             IN  [st EXCEPT !.prices = sv.prices, !.events = slept,
                            !.results[market] = sv.ret]
        ELSE [st EXCEPT !.events = slept, !.results[market] = FALSE]

\* collect_market_data_for_date: for market in self.markets
collect_market_data_for_date(tbl, events, date, out1, out2) ==
    collect_market(
        collect_market([prices |-> tbl, events |-> events,
                        results |-> [m \in Markets |-> FALSE]],
                       date, "KOSPI", out1),
        date, "KOSDAQ", out2)

NoFile == [exists |-> FALSE, text |-> NoneText]

MsaveInit ==
    [called |-> FALSE, day |-> 0, market |-> "KOSPI", data |-> <<>>,
     ret |-> FALSE, existing_count |-> 0]

HrunInit ==
    [pc |-> "idle", ran |-> FALSE, ret |-> FALSE, resume |-> FALSE,
     start |-> [day |-> Today, tod |-> 0], plan |-> <<>>, i |-> 1,
     events |-> <<>>, last_successful_date |-> NoneText]

HistInit ==
    /\ prices = EmptyBag
    /\ msave = MsaveInit
    /\ progress = NoFile
    /\ hrun = HrunInit

\* a call of save_market_data_to_db(date, market, data)
SaveMarketData ==
    /\ \E date \in SaveDates : \E market \in Markets : \E data \in MarketFrames :
         \E fails \in BOOLEAN :
           LET o == save_market_data_to_db(prices, date, market, data, fails)
           IN  /\ prices' = o.prices
               /\ msave' = [called |-> TRUE, day |-> date.day, market |-> market,
                            data |-> data, ret |-> o.ret,
                            existing_count |-> o.existing_count]
    /\ UNCHANGED <<progress, hrun, regVars, stockVars, ioVars>>

MarketNext == SaveMarketData

\* a collector is constructed with start_date and run(resume) begins, lines
\* 432-458: with no date to process it returns True at once
RunStart ==
    /\ hrun.pc = "idle"
    /\ \E start \in StartDates : \E resume \in BOOLEAN :
         LET all_dates == get_date_range(start, end_date)
             plan == IF resume
                     THEN resume_dates(all_dates, load_progress(progress))
                     ELSE all_dates
         IN  hrun' = [pc |-> IF plan = <<>> THEN "idle" ELSE "loop",
                      ran |-> TRUE, ret |-> (plan = <<>>), resume |-> resume,
                      start |-> start, plan |-> plan, i |-> 1, events |-> <<>>,
                      last_successful_date |-> NoneText]
    /\ UNCHANGED <<prices, msave, progress, regVars, stockVars, ioVars>>

\* run, lines 461-473: one date of the loop: both markets are collected, the
\* progress is updated and written, and the run sleeps
RunDate ==
    /\ hrun.pc = "loop"
    /\ hrun.i <= Len(hrun.plan)
    /\ \E out1 \in RequestOutcomes : \E out2 \in RequestOutcomes :
         LET date == hrun.plan[hrun.i]
             st == collect_market_data_for_date(prices, hrun.events, date,
                                                out1, out2)
             last_successful_date ==
                 IF \E m \in Markets : st.results[m]
                 THEN strftime_ymd(date) ELSE hrun.last_successful_date
         IN  /\ prices' = st.prices
             /\ progress' = [exists |-> TRUE, text |-> last_successful_date]
             /\ hrun' = [hrun EXCEPT
                     !.i = @ + 1,
                     !.events = Append(st.events, [op |-> "sleep", day |-> 0]),
                     !.last_successful_date = last_successful_date]
    /\ UNCHANGED <<msave, regVars, stockVars, ioVars>>

\* run, line 489-491: the loop is over and run returns True
RunReturn ==
    /\ hrun.pc = "loop"
    /\ hrun.i > Len(hrun.plan)
    /\ hrun' = [hrun EXCEPT !.pc = "idle", !.ret = TRUE]
    /\ UNCHANGED <<prices, msave, progress, regVars, stockVars, ioVars>>

\* run, lines 479-482: KeyboardInterrupt between two dates, run returns False
RunInterrupted ==
    /\ hrun.pc = "loop"
    /\ hrun.i <= Len(hrun.plan)
    /\ hrun' = [hrun EXCEPT !.pc = "idle", !.ret = FALSE]
    /\ UNCHANGED <<prices, msave, progress, regVars, stockVars, ioVars>>

HistNext ==
    \/ RunStart
    \/ RunDate
    \/ RunReturn
    \/ RunInterrupted

---------------------------------------------------------------------------
(* kr_stock_codes: queries *)

IoInit == [fn |-> "none"]

\* a row of kr_stock_codes as stored for symbol t
StoredRows(t) ==
    [id : {IF t = "A" THEN 1 ELSE 2},
     stock_symbol : {t},
     stock_market : Markets,
     company_name : {"Name1"},
     ipo_date : {None},
     delisting_date : {None, {Epoch + 1}},
     is_active : BOOLEAN,
     updated_at : {Today}]

\* the tables a query may find: at most one row per stock_symbol
StoredTables ==
    {rows \in SUBSET UNION {StoredRows(t) : t \in Symbols} :
        \A r1, r2 \in rows : r1.stock_symbol = r2.stock_symbol => r1 = r2}

\* the market argument: not given, a market, a market no row has, or ""
MarketArgs == {None, {"KOSPI"}, {"KOSDAQ"}, {"NYSE"}, {""}}

\* one entry of data, lines 653-662: the columns of record without its id
as_dict(record) ==
    [stock_symbol |-> record.stock_symbol,
     stock_market |-> record.stock_market,
     company_name |-> record.company_name,
     ipo_date |-> record.ipo_date,
     delisting_date |-> record.delisting_date,
     is_active |-> record.is_active,
     updated_at |-> record.updated_at]

\* get_stock_symbols_from_db without the is_active filter
get_stock_symbols_unfiltered(tbl, market, active_only, raises) ==
    IF raises THEN {}
    ELSE {as_dict(record) : record \in
            {r \in tbl : (market # None /\ market # {""}) => {r.stock_market} = market}}

\* get_stock_symbols_from_db(market, active_only) on the stored rows tbl: the
\* rows of the returned frame; raises tells whether the database raises,
\* which gives an empty frame
get_stock_symbols_from_db(tbl, market, active_only, raises) ==
    IF raises THEN {}
    ELSE {as_dict(record) : record \in
            {r \in tbl :
                /\ (market # None /\ market # {""}) => {r.stock_market} = market
                /\ active_only => r.is_active}}

\* the registry holds rows stored by earlier runs
QueryInit ==
    /\ table \in StoredTables
    /\ hist = [s \in Symbols |-> [raises |-> FALSE, rows |-> {}]]
    /\ last = LastInit
    /\ call = CallInit
    /\ StockInit
    /\ HistInit
    /\ io = [fn |-> "none", market |-> None, active_only |-> FALSE,
             raises |-> FALSE, result |-> {}]

\* a call of get_stock_symbols_from_db(market, active_only)
GetStockSymbolsFromDb ==
    /\ \E market \in MarketArgs : \E active_only \in BOOLEAN : \E raises \in BOOLEAN :
         io' = [fn |-> "get_stock_symbols_from_db", market |-> market,
                active_only |-> active_only, raises |-> raises,
                result |-> get_stock_symbols_from_db(table, market, active_only,
                                                     raises)]
    /\ UNCHANGED <<regVars, stockVars, histVars>>

QueryNext == GetStockSymbolsFromDb

---------------------------------------------------------------------------
(* kr_stock_codes: CSV export *)

\* what may happen in one save_to_csv or in the statistics step
StepOutcomes == {"ok", "query_raises", "write_raises"}

\* save_to_csv(market, active_only, filename) on the stored rows tbl: the
\* path returned ("" when there is no data or an error is caught), the files
\* written and whether data/raw/korean_stocks exists afterwards
save_to_csv(tbl, market, active_only, filename, out, dir) ==
    LET df == get_stock_symbols_from_db(tbl, market, active_only,
                                        out = "query_raises")
    IN  IF df = {} THEN [path |-> "", written |-> {}, dir |-> dir]
        ELSE IF out = "write_raises"
        THEN [path |-> "", written |-> {}, dir |-> TRUE]
        ELSE [path |-> filename, written |-> {filename}, dir |-> TRUE]

\* the four exports of save_all_formats, lines 766-784, in order
Exports ==
    <<[key |-> "all_stocks", market |-> None, active_only |-> FALSE,
       filename |-> "kr_stock_symbols_all.csv"],
      [key |-> "active_stocks", market |-> None, active_only |-> TRUE,
       filename |-> "kr_stock_symbols_active.csv"],
      [key |-> "kospi_stocks", market |-> {"KOSPI"}, active_only |-> TRUE,
       filename |-> "kr_stock_symbols_kospi.csv"],
      [key |-> "kosdaq_stocks", market |-> {"KOSDAQ"}, active_only |-> TRUE,
       filename |-> "kr_stock_symbols_kosdaq.csv"]>>

RECURSIVE export_steps(_, _, _, _)
\* lines 766-784 from export k on: st holds saved_files, the files written
\* and whether the data directory exists
export_steps(st, tbl, outs, k) ==
    IF k > Len(Exports) THEN st
    ELSE LET e == Exports[k]
             o == save_to_csv(tbl, e.market, e.active_only, e.filename,
                              outs[k], st.dir)
         IN  export_steps(
                 [saved_files |-> IF o.path # ""
                                  THEN st.saved_files
                                       \cup {[key |-> e.key, path |-> o.path]}
                                  ELSE st.saved_files,
                  written |-> st.written \cup o.written,
                  dir |-> o.dir],
                 tbl, outs, k + 1)

\* save_all_formats on the stored rows tbl.  stats_out: get_statistics gives
\* its dictionary and the file is written ("ok"), get_statistics catches a
\* database error and gives {} ("query_raises"), or writing the statistics
\* file raises ("write_raises", always so when the directory is missing).
\* With stats == {} the name data_dir read at line 795 is unbound: the
\* handler at lines 798-800 returns {}.
save_all_formats(tbl, outs, stats_out, dir) ==
    LET st == export_steps([saved_files |-> {}, written |-> {}, dir |-> dir],
                           tbl, outs, 1)
    IN  IF stats_out = "query_raises"
        THEN [returned |-> {}, written |-> st.written]
        ELSE IF stats_out = "write_raises" \/ ~st.dir
        THEN [returned |-> {}, written |-> st.written]
        ELSE [returned |-> st.saved_files
                           \cup {[key |-> "statistics",
                                  path |-> "kr_stock_symbols_statistics.csv"]},
              written |-> st.written \cup {"kr_stock_symbols_statistics.csv"}]

ExportInit ==
    /\ table \in StoredTables
    /\ hist = [s \in Symbols |-> [raises |-> FALSE, rows |-> {}]]
    /\ last = LastInit
    /\ call = CallInit
    /\ StockInit
    /\ HistInit
    /\ io = [fn |-> "none", returned |-> {}, written |-> {}]

\* a call of save_all_formats()
SaveAllFormats ==
    /\ \E outs \in [1..Len(Exports) -> StepOutcomes] :
         \E stats_out \in StepOutcomes : \E dir \in BOOLEAN :
           LET o == save_all_formats(table, outs, stats_out, dir)
           IN  io' = [fn |-> "save_all_formats", returned |-> o.returned,
                      written |-> o.written]
    /\ UNCHANGED <<regVars, stockVars, histVars>>

ExportNext == SaveAllFormats

---------------------------------------------------------------------------
(* kr_stock_codes: maintenance *)

\* most rows of a table created before stock_symbol was declared unique
MaxLegacyRows == 3

\* a row with the given id of such a table
LegacyRows(id) ==
    [id : {id},
     stock_symbol : Symbols,
     stock_market : {"KOSPI"},
     company_name : {"Name1"},
     ipo_date : {None},
     delisting_date : {None},
     is_active : {TRUE},
     updated_at : {Today - 1, Today}]

\* tables in which a stock_symbol may have several rows
LegacyTables ==
    {rows \in SUBSET UNION {LegacyRows(id) : id \in 1..MaxLegacyRows} :
        \A r1, r2 \in rows : r1.id = r2.id => r1 = r2}

MaintInit ==
    /\ table \in LegacyTables
    /\ hist = [s \in Symbols |-> [raises |-> FALSE, rows |-> {}]]
    /\ last = LastInit
    /\ call = CallInit
    /\ StockInit
    /\ HistInit
    /\ io = [fn |-> "none", before |-> {}, raises |-> FALSE, removed_count |-> 0]

\* a call of cleanup_duplicates(): raises tells whether the database raises,
\* which rolls the session back and returns 0
CleanupDuplicates ==
    /\ \E raises \in BOOLEAN :
         \E after \in (IF raises THEN {table} ELSE cleanup_duplicates(table)) :
           /\ table' = after
           /\ io' = [fn |-> "cleanup_duplicates", before |-> table,
                     raises |-> raises,
                     removed_count |-> Cardinality(table) - Cardinality(after)]
    /\ UNCHANGED <<hist, last, call, stockVars, histVars>>

MaintNext == CleanupDuplicates

---------------------------------------------------------------------------
(* kr_stock_codes: the company list *)

CodesInit ==
    /\ RegInit
    /\ StockInit
    /\ HistInit
    /\ io = [fn |-> "none", kospi |-> <<>>, kosdaq |-> <<>>,
             names |-> [t \in Symbols |-> [raises |-> FALSE, name |-> "Name1"]],
             raises |-> FALSE, result |-> <<>>]

\* a call of get_all_stock_codes_from_pykrx(): kospi and kosdaq are the
\* ticker lists pykrx gives, names its answer to each name lookup, raises
\* whether fetching a ticker list raises
GetAllStockCodes ==
    /\ \E kospi \in TickerLists : \E kosdaq \in TickerLists :
         \E names \in [Symbols -> NameResults] : \E raises \in BOOLEAN :
           io' = [fn |-> "get_all_stock_codes_from_pykrx", kospi |-> kospi,
                  kosdaq |-> kosdaq, names |-> names, raises |-> raises,
                  result |-> get_all_stock_codes_from_pykrx(kospi, kosdaq,
                                                            names, raises)]
    /\ UNCHANGED <<regVars, stockVars, histVars>>

CodesNext == GetAllStockCodes

---------------------------------------------------------------------------
(* kr_stock_codes: runs against a data source that changes between runs *)

\* most tickers the data source lists (both markets together)
MaxListed == 1

\* the ticker lists the data source may serve
SourceLists ==
    {l \in [kospi : TickerLists, kosdaq : TickerLists] :
        Len(l.kospi) + Len(l.kosdaq) <= MaxListed}

\* io holds the data source's ticker lists, whether fetching them raises
\* (no list is served then), and of the last run: updated_count, and again,
\* whether a run was made since the source last changed
SourceInit ==
    /\ RegInit
    /\ StockInit
    /\ HistInit
    /\ io = [kospi |-> <<>>, kosdaq |-> <<>>, raises |-> FALSE, again |-> FALSE,
             updated_count |-> 0]

\* the ticker lists of the data source change, or fetching them starts or
\* stops raising
ListsChange ==
    /\ \E l \in SourceLists : \E raises \in BOOLEAN :
         /\ raises => (l.kospi = <<>> /\ l.kosdaq = <<>>)
         /\ <<l.kospi, l.kosdaq, raises>> # <<io.kospi, io.kosdaq, io.raises>>
         /\ io' = [io EXCEPT !.kospi = l.kospi, !.kosdaq = l.kosdaq,
                             !.raises = raises, !.again = FALSE]
    /\ UNCHANGED <<regVars, stockVars, histVars>>

\* the price history of a ticker changes
SourceHistoryChanges ==
    /\ \E s \in Symbols : \E h \in HistChoices :
         /\ h # hist[s]
         /\ hist' = [hist EXCEPT ![s] = h]
    /\ io' = [io EXCEPT !.again = FALSE]
    /\ UNCHANGED <<table, last, call, stockVars, histVars>>

\* collect_and_update_stock_symbols against the data source as it is; when
\* fetching a ticker list raises get_all_stock_codes_from_pykrx gives []
RunOnSource ==
    /\ \E o \in run_outcomes(table, io.kospi, io.kosdaq, NamesServed, hist, 0) :
         /\ RunEnds(io.kospi, io.kosdaq, o)
         /\ io' = [io EXCEPT !.again = TRUE,
                             !.updated_count = o.updated_count]
    /\ UNCHANGED <<hist, call, stockVars, histVars>>

SourceNext ==
    \/ ListsChange
    \/ SourceHistoryChanges
    \/ RunOnSource

---------------------------------------------------------------------------
(* collect_korean_stocks_kiwoom: the Kiwoom collector and its host *)

\* most requests one collector sends
MaxRequests == 3

KIWOOM_TEST_HOST == "https://mockapi.kiwoom.com"

KIWOOM_PROD_HOST == "https://api.kiwoom.com"

\* the values the environment may hold for KIWOOM_USE_TEST_SERVER; None when
\* the variable is not set
EnvValues == {None, {"true"}, {"True"}, {"false"}, {"1"}}

\* str.lower()
lower(s) == IF s = "True" THEN "true" ELSE s

\* os.getenv(name, default)
getenv(env, default) == IF env = None THEN default ELSE CHOOSE v \in env : TRUE

\* kiwoom_config line 12: the flag read from the environment at import
KIWOOM_USE_TEST_SERVER(env) == lower(getenv(env, "true")) = "true"

\* get_kiwoom_host()
get_kiwoom_host(env) ==
    IF KIWOOM_USE_TEST_SERVER(env) THEN KIWOOM_TEST_HOST ELSE KIWOOM_PROD_HOST

\* url = self.host + endpoint
url(host, endpoint) == [host |-> host, endpoint |-> endpoint]

\* what the token request may give
TokenOutcomes == {"token", "api_error", "http_error", "raises"}

\* what the price request may give
PriceOutcomes == {"data", "no_data", "api_error", "http_error", "raises"}

\* the stock codes price histories are asked for
KiwoomCodes == {"005930", "000660"}

\* io holds the environment of the process and, of the collector: the
\* constructor argument, host, whether it has an access token, the requests
\* it sent and what the last call returned
KiwoomInit ==
    /\ RegInit
    /\ StockInit
    /\ HistInit
    /\ \E env \in EnvValues :
         io = [fn |-> "none", env |-> env, use_test_server |-> TRUE,
               host |-> "", access_token |-> FALSE, requests |-> <<>>,
               ret |-> "None"]

\* KiwoomStockCollector(app_key, secret_key, use_test_server): __init__ and
\* the _get_access_token it calls
KiwoomStockCollector ==
    /\ io.fn = "none"
    /\ \E use_test_server \in BOOLEAN : \E out \in TokenOutcomes :
         LET host == get_kiwoom_host(io.env)
         IN  io' = [io EXCEPT !.fn = "__init__",
                              !.use_test_server = use_test_server,
                              !.host = host,
                              !.access_token = (out = "token"),
                              !.requests = <<[method |-> "POST",
                                              url |-> url(host, "/oauth2/token"),
                                              stock_code |-> ""]>>]
    /\ UNCHANGED <<regVars, stockVars, histVars>>

\* get_stock_price_history(stock_code, start_date, end_date): without an
\* access token it returns None and sends nothing
GetStockPriceHistory ==
    /\ io.fn # "none"
    /\ Len(io.requests) < MaxRequests
    /\ \E stock_code \in KiwoomCodes : \E out \in PriceOutcomes :
         IF ~io.access_token
         THEN io' = [io EXCEPT !.fn = "get_stock_price_history",
                               !.ret = "None"]
         ELSE io' = [io EXCEPT
                 !.fn = "get_stock_price_history",
                 !.requests = Append(@,
                     [method |-> "GET",
                      url |-> url(io.host,
                          "/uapi/domestic-stock/v1/quotations/inquire-price"),
                      stock_code |-> stock_code]),
                 !.ret = IF out = "data" THEN "df" ELSE "None"]
    /\ UNCHANGED <<regVars, stockVars, histVars>>

KiwoomNext ==
    \/ KiwoomStockCollector
    \/ GetStockPriceHistory

---------------------------------------------------------------------------
(* Specifications *)

Init ==
    /\ RegInit
    /\ StockInit
    /\ HistInit
    /\ io = IoInit

\* runs of the registry collector against a changing data source
Spec == Init /\ [][RegNext]_vars

\* calls of the date functions
SpecDates == Init /\ [][DatesNext]_vars

\* calls of KoreanStockCollector.save_stock_data_to_db with any data frames
SpecStocks == Init /\ [][StockNext]_vars

\* runs of KoreanStockCollector.collect_all_stocks_data
SpecCollect == Init /\ [][CollectNext]_vars

\* calls of HistoricalMarketDataCollector.save_market_data_to_db
SpecMarket == Init /\ [][MarketNext]_vars

\* runs of the HistoricalMarketDataCollector
SpecHist == Init /\ [][HistNext]_vars

\* calls of get_stock_symbols_from_db on stored tables
SpecQuery == QueryInit /\ [][QueryNext]_vars

\* runs of the registry collector against a data source that is kept in the
\* state, so that consecutive runs against the same source are told apart
SpecSource == SourceInit /\ [][SourceNext]_vars

\* calls of get_all_stock_codes_from_pykrx
SpecCodes == CodesInit /\ [][CodesNext]_vars

\* calls of cleanup_duplicates on tables that may hold duplicates
SpecMaint == MaintInit /\ [][MaintNext]_vars

\* calls of save_all_formats on stored tables
SpecExport == ExportInit /\ [][ExportNext]_vars

\* a KiwoomStockCollector is constructed and asked for price histories
SpecKiwoom == KiwoomInit /\ [][KiwoomNext]_vars

---------------------------------------------------------------------------
(* Claims on the registry *)

\* C1: after any sequence of collect_and_update_stock_symbols runs, whatever
\* ticker lists were fetched (a ticker may be in both), kr_stock_codes holds
\* at most one row per stock_symbol.
C1_OneRowPerSymbol ==
    \A r1 \in table : \A r2 \in table :
        r1.stock_symbol = r2.stock_symbol => r1 = r2

\* a run whose final commit was refused (the fetched list held a ticker
\* twice) on a table that holds rows
C1_Witness ==
    /\ last.ran /\ ~last.ret /\ last.symbols # {}
    /\ table # {}

\* C4: a row marked delisted (is_active false, delisting_date set) whose
\* symbol has recent trading data again, so that check_if_delisted returns
\* None, is left by that same run with is_active true and delisting_date
\* empty.
C4_RelistedInSameRun ==
    [][(hist' = hist /\ last'.ran /\ last'.ret)
        => \A r \in table :
            (/\ ~r.is_active
             /\ r.delisting_date # None
             /\ r.stock_symbol \in last'.symbols
             /\ ~hist[r.stock_symbol].raises
             /\ \E d \in hist[r.stock_symbol].rows :
                    Today - RecentDays <= d /\ d <= Today)
            => \E r2 \in table' :
                  r2.id = r.id /\ r2.is_active /\ r2.delisting_date = None]_vars

\* C5: check_if_delisted returns None whenever the symbol has a price row in
\* the last 30 days; otherwise the latest date of its history since
\* 1990-01-01; None when there is no history or the data source raises.
C5_CheckIfDelisted ==
    call.fn = "check_if_delisted" =>
        LET recent == {d \in call.h : Today - RecentDays <= d /\ d <= Today}
            since == {d \in call.h : Epoch <= d /\ d <= Today}
        IN  /\ recent # {} => call.result = None
            /\ (recent = {} /\ (call.raises1 \/ call.raises2))
                  => call.result = None
            /\ (recent = {} /\ ~call.raises1 /\ ~call.raises2 /\ since = {})
                  => call.result = None
            /\ (recent = {} /\ ~call.raises1 /\ ~call.raises2 /\ since # {})
                  => /\ call.result \subseteq since
                     /\ Cardinality(call.result) = 1
                     /\ \A d \in since : \A m \in call.result : d <= m

\* a delisted symbol: several old rows, the latest just outside the window
C5_Witness ==
    /\ call.fn = "check_if_delisted"
    /\ Cardinality(call.h) > 1
    /\ call.result = {Today - RecentDays - 1}

\* C6: get_ipo_date_from_pykrx returns the earliest date of the available
\* price history, None when it is empty or the data source raises, and a row
\* newly created by a run stores that value as ipo_date.
C6_IpoDateStored ==
    [][(hist' = hist /\ last'.ran)
        => \A r2 \in table' :
             r2.id \notin {r.id : r \in table}
             => LET h == hist[r2.stock_symbol]
                    avail == {d \in h.rows : Epoch <= d /\ d <= Today}
                IN  IF h.raises \/ avail = {}
                    THEN r2.ipo_date = None
                    ELSE /\ r2.ipo_date \subseteq avail
                         /\ Cardinality(r2.ipo_date) = 1
                         /\ \A d \in avail : \A m \in r2.ipo_date : m <= d]_vars

\* a stored row whose ipo_date is the first of several served rows
C6_Witness ==
    \E r \in table :
        /\ r.ipo_date = {Epoch + 1}
        /\ r.delisting_date = None
        /\ hist[r.stock_symbol].rows = {Epoch + 1, Today}

\* C7: an exception raised while processing one company is caught and
\* counted and does not stop the run: every later company is still
\* processed and the run returns True.
C7_ErrorDoesNotStopRun ==
    (last.ran /\ last.error_count > 0) => (last.later /\ last.ret)

\* C16: when the external source yields no companies,
\* collect_and_update_stock_symbols returns False and creates or updates no
\* row of kr_stock_codes.
C16_NoCompaniesReturnsFalse ==
    [][(io'.again /\ (io.raises \/ (io.kospi = <<>> /\ io.kosdaq = <<>>)))
        => (last'.ran /\ ~last'.ret /\ table' = table)]_vars

\* a run on stored rows against a source that lists no ticker
C16_Witness ==
    /\ io.again /\ ~io.raises
    /\ io.kospi = <<>> /\ io.kosdaq = <<>>
    /\ last.ran /\ ~last.ret
    /\ table # {}

\* C18: in every state reachable by runs of collect_and_update_stock_symbols
\* every row of kr_stock_codes has is_active true if and only if its
\* delisting_date is empty.
C18_ActiveIffNotDelisted ==
    \A r \in table : r.is_active <=> (r.delisting_date = None)

\* C19: reconciliation is idempotent: when collect_and_update_stock_symbols
\* is run a second time in a row against an unchanged source (same tickers,
\* names and price histories), the second run creates no row, modifies no
\* row and counts zero updates.
C19_SecondRunChangesNothing ==
    [][(io.again /\ io'.again /\ last.ret /\ last'.ret)
        => (table' = table /\ io'.updated_count = 0)]_vars

---------------------------------------------------------------------------
(* Claims on korean_stocks *)

\* C2: after any sequence of save_stock_data_to_db calls with arbitrary data
\* frames, korean_stocks holds at most one row per (symbol, date).
C2_OneRowPerSymbolDate ==
    \A r1 \in BagToSet(stocks) :
        /\ CopiesIn(r1, stocks) = 1
        /\ \A r2 \in BagToSet(stocks) :
              (r1.symbol = r2.symbol /\ r1.date = r2.date) => r1 = r2

\* C9: in collect_all_stocks_data a pause of request_delay (3 seconds) lies
\* between any two consecutive per-ticker history fetches, whether or not
\* the earlier fetch returned data.
C9_PauseBetweenFetches ==
    crun.fn = "collect_all_stocks_data" =>
        \A j \in 1..Len(crun.events) : \A k \in 1..Len(crun.events) :
            (j < k /\ crun.events[j].op = "fetch" /\ crun.events[k].op = "fetch")
            => \E m \in (j + 1)..(k - 1) :
                  /\ crun.events[m].op = "sleep"
                  /\ crun.events[m].secs = 3

\* two fetches in one collection
C9_Witness ==
    /\ crun.fn = "collect_all_stocks_data"
    /\ Cardinality({j \in 1..Len(crun.events) : crun.events[j].op = "fetch"}) > 1

\* C11: save_stock_data_to_db is all-or-nothing: when it returns True every
\* row of the frame is stored (inserted, or its stored row updated) and
\* committed; when a row or the commit fails it returns False and
\* korean_stocks is exactly as before the call.
C11_SaveAllOrNothing ==
    [][crun'.fn = "save_stock_data_to_db"
        => IF crun'.ret
           THEN \A key \in crun'.keys :
                   \E r \in BagToSet(stocks') :
                       r.symbol = key.symbol /\ r.date = key.date
           ELSE stocks' = stocks]_vars

\* a failed save of a frame of two rows on a table that holds rows, and the
\* table still holds them
C11_Witness ==
    /\ crun.fn = "save_stock_data_to_db"
    /\ ~crun.ret
    /\ Cardinality(crun.keys) > 1
    /\ stocks # EmptyBag

---------------------------------------------------------------------------
(* Claims on the historical market data collector *)

\* the days after day d up to today, in ascending order
DaysAfter(d) == [k \in 1..(Today - d) |-> d + k]

IsRequest(e) == e.op = "request"

\* the days the requests of the run were made for, in order
RequestDays(events) ==
    LET requests == SelectSeq(events, IsRequest)
    IN  [n \in 1..Len(requests) |-> requests[n].day]

\* the requests made so far are those of the first dates of the plan, two
\* per date and in the plan's order, and a run that returned True has
\* processed every date of the plan
ProcessedAsPlanned(run) ==
    /\ run.i - 1 <= Len(run.plan)
    /\ RequestDays(run.events)
         = [n \in 1..(2 * (run.i - 1)) |-> run.plan[(n + 1) \div 2].day]
    /\ (run.pc = "idle" /\ run.ret) => run.i - 1 = Len(run.plan)

\* C3: run(resume=True) with a progress file that records a last successful
\* date d of the date range processes exactly the dates after d, ascending,
\* and fetches no date on or before d; with resume=False or no progress file
\* it processes the whole range from start_date.
C3_ResumeAfterLastSuccess ==
    [][/\ hrun.pc = "idle"
          => LET d == IF /\ hrun'.resume
                         /\ progress.exists
                         /\ progress.text.kind = "date"
                         /\ hrun'.start.day <= progress.text.day
                         /\ progress.text.day <= Today
                      THEN progress.text.day
                      ELSE hrun'.start.day - 1
             IN  /\ Len(hrun'.plan) = Today - d
                 /\ \A k \in 1..Len(hrun'.plan) :
                        hrun'.plan[k].day = DaysAfter(d)[k]
       /\ hrun.pc = "loop" => hrun'.plan = hrun.plan
       /\ ProcessedAsPlanned(hrun')]_vars

\* a resumed run that has finished the dates after the recorded one, which
\* was not the first of the range
C3_Witness ==
    /\ hrun.ran /\ hrun.pc = "idle" /\ hrun.ret /\ hrun.resume
    /\ Len(hrun.plan) = 1
    /\ hrun.start.day < hrun.plan[1].day
    /\ Len(hrun.events) > 1

\* C8: after save_market_data_to_db(date, market, data) returns True the rows
\* stored for (date, market) are exactly one row per ticker of data; no row
\* stored before for that pair remains.
C8_SaveReplacesDateMarket ==
    (msave.called /\ msave.ret)
    => LET stored == {r \in BagToSet(prices) :
                        r.date = msave.day /\ r.market_name = msave.market}
       IN  /\ \A r \in stored : CopiesIn(r, prices) = 1
           /\ {[stock_symbol |-> r.stock_symbol, close |-> r.close] : r \in stored}
                = {[stock_symbol |-> t, close |-> msave.data[t]]
                     : t \in DOMAIN msave.data}

\* a save over rows already stored for the pair
C8_Witness ==
    /\ msave.called /\ msave.ret
    /\ msave.existing_count > 1
    /\ msave.data # <<>>

\* C10: during run a sleep lies between any two consecutive market-data
\* requests, also when a request raised an error or returned no data.
C10_SleepBetweenRequests ==
    \A k \in 1..(Len(hrun.events) - 1) :
        ~(hrun.events[k].op = "request" /\ hrun.events[k + 1].op = "request")

---------------------------------------------------------------------------
(* Claims on the queries and exports of the registry *)

\* C12: get_stock_symbols_from_db(market, active_only) returns exactly the
\* stored rows whose stock_market equals market (all markets when no market
\* is given) and, when active_only is true, whose is_active is true; with
\* active_only false delisted rows are included; no stored row changes.
C12_QueryReturnsMatchingRows ==
    [][io'.fn = "get_stock_symbols_from_db"
        => /\ table' = table
           /\ ~io'.raises
              => \A r \in table :
                   (as_dict(r) \in io'.result)
                   <=> /\ io'.market \in {None, {""}} \/ io'.market = {r.stock_market}
                       /\ io'.active_only => r.is_active
           /\ \A d \in io'.result : \E r \in table : as_dict(r) = d]_vars

\* a query for one market with active_only false that returns a delisted row
\* and leaves out a stored row of the other market
C12_Witness ==
    /\ io.fn = "get_stock_symbols_from_db"
    /\ io.market = {"KOSPI"} /\ ~io.active_only
    /\ \E d \in io.result : ~d.is_active
    /\ \E r \in table : r.stock_market = "KOSDAQ"

\* C13: save_all_formats returns an entry for every file it wrote: whenever
\* a CSV file was written during the call its path is in the returned
\* dictionary, also when the statistics step yields nothing.
C13_EveryWrittenFileReturned ==
    io.fn = "save_all_formats" =>
        \A f \in io.written : \E e \in io.returned : e.path = f

\* C14: cleanup_duplicates on a table in which some stock_symbol has
\* several rows leaves exactly one row per stock_symbol, one of greatest
\* updated_at among the symbol's rows, deletes no row of a symbol that had
\* one row, and returns the number of rows deleted; on error it rolls back
\* and returns 0.
C14_CleanupKeepsNewest ==
    io.fn = "cleanup_duplicates" =>
        IF io.raises
        THEN table = io.before /\ io.removed_count = 0
        ELSE /\ table \subseteq io.before
             /\ io.removed_count = Cardinality(io.before) - Cardinality(table)
             /\ \A r \in io.before :
                  LET same == {q \in io.before : q.stock_symbol = r.stock_symbol}
                      kept == {q \in table : q.stock_symbol = r.stock_symbol}
                  IN  /\ Cardinality(kept) = 1
                      /\ \A k \in kept : \A q \in same : q.updated_at <= k.updated_at
                      /\ Cardinality(same) = 1 => r \in table

\* a cleanup that deleted the older of two rows of one symbol and kept the
\* single row of another symbol
C14_Witness ==
    /\ io.fn = "cleanup_duplicates" /\ ~io.raises
    /\ io.removed_count = 1
    /\ Cardinality(table) = 2
    /\ \E r \in io.before \ table : r.updated_at < Today

\* the entry the claim gives ticker t of the list of market m
C15_Entry(e, t, m, res) ==
    /\ e.stock_symbol = t
    /\ e.stock_market = m
    /\ e.company_name # ""
    /\ (res.raises \/ res.name \in {"", " "})
         => e.company_name = (IF t = "A" THEN "Unknown Company A"
                              ELSE "Unknown Company B")

\* C15: get_all_stock_codes_from_pykrx returns one entry per ticker of the
\* KOSPI list followed by one per ticker of the KOSDAQ list, each labelled
\* with the market of its list and with a non-empty company_name, the
\* fallback "Unknown Company <ticker>" when the name lookup fails or is
\* blank; it returns an empty list when fetching a ticker list fails.
C15_OneEntryPerTicker ==
    io.fn = "get_all_stock_codes_from_pykrx" =>
        IF io.raises THEN io.result = <<>>
        ELSE /\ Len(io.result) = Len(io.kospi) + Len(io.kosdaq)
             /\ \A k \in 1..Len(io.kospi) :
                  C15_Entry(io.result[k], io.kospi[k], "KOSPI",
                            io.names[io.kospi[k]])
             /\ \A k \in 1..Len(io.kosdaq) :
                  C15_Entry(io.result[Len(io.kospi) + k], io.kosdaq[k], "KOSDAQ",
                            io.names[io.kosdaq[k]])

\* a list of both markets in which one name is blank and one lookup raises
C15_Witness ==
    /\ io.fn = "get_all_stock_codes_from_pykrx" /\ ~io.raises
    /\ Len(io.kospi) > 0 /\ Len(io.kosdaq) > 1
    /\ \E k \in 1..Len(io.result) : io.names[io.result[k].stock_symbol].name = " "
    /\ \E k \in 1..Len(io.result) : io.names[io.result[k].stock_symbol].raises


---------------------------------------------------------------------------
(* Claims on collect_all_stocks_data *)

\* the number of history fetches among events
Fetches(events) ==
    Cardinality({k \in 1..Len(events) : events[k].op = "fetch"})

\* every row of df is a row of korean_stocks
Stored(df, tbl) == \A k \in 1..Len(df) : df[k] \in BagToSet(tbl)

\* the stock code of the entry is a string of exactly 6 characters
WellFormed(company) ==
    /\ company.stock_code # NoCode
    /\ company.stock_code # ""
    /\ code_len(company.stock_code) = 6

\* a step of collect_all_stocks_data that processes one company
CompanyProcessed == crun'.i = crun.i + 1

\* C20: collect_all_stocks_data fetches nothing and stores nothing for a
\* company whose stock code is empty or not 6 characters long; the rows a
\* fetch returns are included in the returned frame and handed to
\* save_stock_data_to_db, which stores them unless the database fails, and
\* then leaves the table as it was; a company whose processing raises is
\* skipped and the loop goes on; the frame returned is the concatenation of
\* the frames fetched, and it is empty when the company list is empty
C20_CollectsWhatItFetches ==
    [][/\ CompanyProcessed =>
            LET c == crun'.company
            IN  /\ ~WellFormed(c) =>
                      /\ Fetches(crun'.events) = Fetches(crun.events)
                      /\ stocks' = stocks
                      /\ crun'.all_stock_data = crun.all_stock_data
                /\ WellFormed(c) =>
                      Fetches(crun'.events) = Fetches(crun.events) + 1
                /\ (WellFormed(c) /\ c.df # <<>>) =>
                      /\ crun'.all_stock_data = Append(crun.all_stock_data, c.df)
                      /\ ~crun'.fails => Stored(c.df, stocks')
                      /\ crun'.fails => stocks' = stocks
                /\ crun'.pc = "loop"
       /\ (crun.pc = "loop" /\ crun'.pc = "idle") =>
            /\ \A k \in 1..Len(crun.all_stock_data) :
                 \A j \in 1..Len(crun.all_stock_data[k]) :
                   \E m \in 1..Len(crun'.frame) :
                     crun'.frame[m] = crun.all_stock_data[k][j]
            /\ Len(crun'.frame) = Len(concat(crun.all_stock_data))
       /\ (crun.pc = "idle" /\ crun'.pc = "idle"
           /\ crun'.fn = "collect_all_stocks_data") =>
            crun'.frame = <<>>
      ]_vars

\* a collection returned the rows fetched for its first company, which are
\* stored, after skipping a second company with a short code
C20_Witness ==
    /\ crun.fn = "collect_all_stocks_data"
    /\ crun.pc = "idle"
    /\ crun.i = 2
    /\ crun.frame # <<>>
    /\ crun.company.stock_code = "12345"
    /\ Fetches(crun.events) = 1
    /\ Stored(crun.frame, stocks)

\* C20 as stated: the rows a fetch returns for a company with a well-formed
\* code are in korean_stocks after the company is processed, and are
\* included in the frames to return
C20_SavesAndIncludes ==
    [][CompanyProcessed =>
            LET c == crun'.company
            IN  (WellFormed(c) /\ c.df # <<>>) =>
                  /\ crun'.all_stock_data = Append(crun.all_stock_data, c.df)
                  /\ Stored(c.df, stocks')
      ]_vars

---------------------------------------------------------------------------
(* Claims on the Kiwoom collector *)

\* the host the constructor argument asks for
HostAskedFor(use_test_server) ==
    IF use_test_server THEN KIWOOM_TEST_HOST ELSE KIWOOM_PROD_HOST

\* C17: every request of a KiwoomStockCollector goes to the test host when
\* it was constructed with use_test_server true and to the production host
\* when it was constructed with use_test_server false
C17_HostFromConstructorArgument ==
    io.fn # "none" =>
        \A k \in 1..Len(io.requests) :
            io.requests[k].url.host = HostAskedFor(io.use_test_server)

=============================================================================
